---- MODULE Spec2Model ----
(* Verification model of upload_to_databricks.py: the one-shot workflow   *)
(* main() (create schema, create volume, upload CSV files, prepare table  *)
(* configurations) run against a Databricks workspace and a local data    *)
(* directory, together with the Statement Runner of the design document.  *)
(* Text is modelled as sequences of one-character strings so that case    *)
(* folding, substring search, glob matching and path building are         *)
(* computed rather than assumed.                                          *)
EXTENDS Integers, Sequences, FiniteSets, TLC

(* ---------------- bounds ---------------- *)
MaxRuns == 2
MaxLen == 4

(* ---------------- configuration (lines 16-19) ---------------- *)
CATALOG == <<"d","e","m","o","s">>
SCHEMA == <<"m","o","o","r","c","a","r","e">>
VOLUME == <<"d","a","t","a","_","f","i","l","e","s">>
DATA_DIR == <<"d","a","t","a">>

Slash == <<"/">>

(* ---------------- text helpers (Python built-ins used by main) -------- *)
UC == <<"A","B","C","D","E","F","G","H","I","J","K","L","M","N","O","P","Q","R","S","T","U","V","W","X","Y","Z">>
LC == <<"a","b","c","d","e","f","g","h","i","j","k","l","m","n","o","p","q","r","s","t","u","v","w","x","y","z">>

LowerChar(c) == IF \E j \in 1..Len(UC) : UC[j] = c
                THEN LC[CHOOSE j \in 1..Len(UC) : UC[j] = c]
                ELSE c

\* str.lower()
Lower(s) == [j \in 1..Len(s) |-> LowerChar(s[j])]

\* the "in" operator on strings
IsSubstring(needle, hay) ==
    \E j \in 0..(Len(hay) - Len(needle)) : SubSeq(hay, j + 1, j + Len(needle)) = needle

StartsWith(s, p) == Len(s) >= Len(p) /\ SubSeq(s, 1, Len(p)) = p
EndsWith(s, p) == Len(s) >= Len(p) /\ SubSeq(s, Len(s) - Len(p) + 1, Len(s)) = p

\* position of the last "/" in p, 0 when there is none
LastSlash(p) == IF \E j \in 1..Len(p) : p[j] = "/"
                THEN CHOOSE j \in 1..Len(p) : p[j] = "/" /\ \A k \in (j+1)..Len(p) : p[k] # "/"
                ELSE 0

\* variant: the path is used as it is, directory included
BasenameKeepDir(p) == p

\* os.path.basename (line 80)
Basename(p) == SubSeq(p, LastSlash(p) + 1, Len(p))

(* ---------------- the except handlers of steps 1 and 2 ---------------- *)
\* variants of the step-1 handler: a match that is case sensitive; a handler
\* that re-raises what it does not recognise
SchemaHandlerCaseSensitive(msg) == IF IsSubstring(<<"a","l","r","e","a","d","y"," ","e","x","i","s","t","s">>, msg) THEN "exists" ELSE "warning"

SchemaHandlerReraise(msg) == IF IsSubstring(<<"a","l","r","e","a","d","y"," ","e","x","i","s","t","s">>, Lower(msg)) THEN "exists" ELSE "raise"

\* lines 45-49
SchemaHandler(msg) == IF IsSubstring(<<"a","l","r","e","a","d","y"," ","e","x","i","s","t","s">>, Lower(msg)) THEN "exists" ELSE "warning"

\* variant of the step-2 handler that re-raises what it does not recognise
VolumeHandlerReraise(msg) == IF IsSubstring(<<"a","l","r","e","a","d","y"," ","e","x","i","s","t","s">>, Lower(msg)) THEN "exists" ELSE "raise"

\* lines 62-66
VolumeHandler(msg) == IF IsSubstring(<<"a","l","r","e","a","d","y"," ","e","x","i","s","t","s">>, Lower(msg)) THEN "exists" ELSE "warning"

\* variant: the upload loop lets the error escape
UploadHandlerReraise(ok) == IF ok THEN "continue" ELSE "raise"

\* lines 95-96: the handler of the upload loop reports the error; the loop goes on
UploadHandler(ok) == "continue"

\* variant: the table loop lets the error escape
TableHandlerReraise(ok) == IF ok THEN "continue" ELSE "raise"

\* lines 134-135: the handler of the table loop reports the error; the loop goes on
TableHandler(ok) == "continue"

\* variant: no early return, the empty loop falls through to step 4
AfterGlobNoReturn(files) == IF files = <<>> THEN "step4" ELSE "upload"

\* lines 74-77: no matching file ends main() by return
AfterGlob(files) == IF files = <<>> THEN "done" ELSE "upload"

(* ---------------- paths ---------------- *)
\* line 70
volume_path == <<"/","V","o","l","u","m","e","s","/">> \o CATALOG \o Slash \o SCHEMA \o Slash \o VOLUME

\* line 81
RemotePath(filename) == volume_path \o Slash \o filename

\* line 72: the files "data/synthetic-*.csv" matches
GlobMatch(p) ==
    /\ StartsWith(p, DATA_DIR \o Slash \o <<"s","y","n","t","h","e","t","i","c","-">>)
    /\ EndsWith(p, <<".","c","s","v">>)
    /\ Len(p) >= Len(DATA_DIR \o Slash \o <<"s","y","n","t","h","e","t","i","c","-">>) + Len(<<".","c","s","v">>)
    /\ \A j \in (Len(DATA_DIR) + 2)..Len(p) : p[j] # "/"

Glob(fs) == {p \in DOMAIN fs : GlobMatch(p)}

\* glob.glob returns the matches in directory-enumeration order: any order
Orders(S) == {s \in [1..Cardinality(S) -> S] : \A a, b \in 1..Cardinality(S) : s[a] = s[b] => a = b}

(* ---------------- table_configs (lines 101-114), in dict order -------- *)
table_configs == <<
    [name |-> <<"s","y","n","t","h","e","t","i","c","_","p","e","a","t","l","a","n","d","_","s","i","t","e","s">>, file |-> <<"s","y","n","t","h","e","t","i","c","-","p","e","a","t","l","a","n","d","-","s","i","t","e","s",".","c","s","v">>],
    [name |-> <<"s","y","n","t","h","e","t","i","c","_","m","o","n","i","t","o","r","i","n","g","_","d","a","t","a">>, file |-> <<"s","y","n","t","h","e","t","i","c","-","m","o","n","i","t","o","r","i","n","g","-","d","a","t","a",".","c","s","v">>],
    [name |-> <<"s","y","n","t","h","e","t","i","c","_","r","e","s","t","o","r","a","t","i","o","n","_","p","r","o","j","e","c","t","s">>, file |-> <<"s","y","n","t","h","e","t","i","c","-","r","e","s","t","o","r","a","t","i","o","n","-","p","r","o","j","e","c","t","s",".","c","s","v">>] >>

(* ---------------- the workspace and the data directory ---------------- *)
TheSchema == <<CATALOG, SCHEMA>>
TheVolume == <<CATALOG, SCHEMA, VOLUME>>

\* variant: the bytes are appended to the object that is there
FilesUploadAppend(objs, path, content) ==
    [p \in (DOMAIN objs) \cup {path} |->
        IF p = path THEN (IF path \in DOMAIN objs THEN objs[path] \o content ELSE content) ELSE objs[p]]

\* w.files.upload(path, content, overwrite=True), lines 89-93
FilesUpload(objs, path, content) ==
    [p \in (DOMAIN objs) \cup {path} |-> IF p = path THEN content ELSE objs[p]]

InData(name) == DATA_DIR \o Slash \o name

\* failure messages the create calls may raise
Messages == {
    <<"S","c","h","e","m","a"," ","'","m","o","o","r","c","a","r","e","'"," ","a","l","r","e","a","d","y"," ","e","x","i","s","t","s">>,
    <<"A","L","R","E","A","D","Y"," ","E","X","I","S","T","S">>,
    <<"A","l","r","e","a","d","y"," ","E","x","i","s","t","s",".">>,
    <<"x"," ","a","L","r","E","a","D","y"," ","e","X","i","S","t","S">>,
    <<"R","E","S","O","U","R","C","E","_","A","L","R","E","A","D","Y","_","E","X","I","S","T","S">>,
    <<"P","E","R","M","I","S","S","I","O","N","_","D","E","N","I","E","D">>,
    <<"a","l","r","e","a","d","y"," ","e","x","i","s","t">>,
    <<"a","l","r","e","a","d","y","e","x","i","s","t","s">>,
    <<"e","x","i","s","t","s"," ","a","l","r","e","a","d","y">>,
    <<"a","l","r","e","a","d","y"," "," ","e","x","i","s","t","s">>,
    <<"a","l","r","e","a","d","y","a","l","r","e","a","d","y"," ","e","x","i","s","t","s">>,
    <<>> }

\* data directories the script may be started in
LocalDirs == {
    <<>>,
    (InData(<<"g","e","n","e","r","a","t","e","_","d","a","t","a",".","R">>) :> <<1>>),
    (InData(<<"s","y","n","t","h","e","t","i","c","-","p","e","a","t","l","a","n","d","-","s","i","t","e","s",".","c","s","v">>) :> <<1, 2>>) @@ (InData(<<"g","e","n","e","r","a","t","e","_","d","a","t","a",".","R">>) :> <<1>>),
    (InData(<<"s","y","n","t","h","e","t","i","c","-","p","e","a","t","l","a","n","d","-","s","i","t","e","s",".","c","s","v">>) :> <<1, 2>>) @@ (InData(<<"s","y","n","t","h","e","t","i","c","-","r","e","s","t","o","r","a","t","i","o","n","-","p","r","o","j","e","c","t","s",".","c","s","v">>) :> <<>>),
    (InData(<<"s","y","n","t","h","e","t","i","c","-","m","o","n","i","t","o","r","i","n","g","-","d","a","t","a",".","c","s","v">>) :> <<3>>) @@ (InData(<<"s","y","n","t","h","e","t","i","c","-",".","c","s","v">>) :> <<4>>)
        @@ (InData(<<"s","y","n","t","h","e","t","i","c","-","o","l","d",".","c","s","v",".","b","a","k">>) :> <<5>>) @@ (InData(<<"S","y","n","t","h","e","t","i","c","-","a",".","c","s","v">>) :> <<6>>)
        @@ (<<"o","t","h","e","r","/","s","y","n","t","h","e","t","i","c","-","b",".","c","s","v">> :> <<7>>) }

\* workspaces the script may be run against
Workspaces == {
    [schemas |-> {}, volumes |-> {}, objects |-> <<>>],
    [schemas |-> {TheSchema}, volumes |-> {}, objects |-> <<>>],
    [schemas |-> {TheSchema}, volumes |-> {TheVolume},
     objects |-> (<<"/","V","o","l","u","m","e","s","/","d","e","m","o","s","/","m","o","o","r","c","a","r","e","/","d","a","t","a","_","f","i","l","e","s","/","s","y","n","t","h","e","t","i","c","-","p","e","a","t","l","a","n","d","-","s","i","t","e","s",".","c","s","v">> :> <<9>>)
                 @@ (<<"/","V","o","l","u","m","e","s","/","d","e","m","o","s","/","m","o","o","r","c","a","r","e","/","d","a","t","a","_","f","i","l","e","s","/","r","e","a","d","m","e",".","t","x","t">> :> <<8>>)] }

NoError == [caught |-> FALSE, str |-> <<>>]
Caught(msg) == [caught |-> TRUE, str |-> msg]

VARIABLES
    pc,             \* position of main(): start, step1, step2, step3, upload, step4, summary, done, raised
    run,            \* number of the current invocation of the script
    schemas,        \* workspace: existing schemas, as (catalog, schema)
    volumes,        \* workspace: existing volumes, as (catalog, schema, volume)
    objects,        \* workspace: remote path -> bytes of the object stored there
    tables,         \* workspace: existing tables
    local,          \* local file system: path -> bytes
    e,              \* the exception last caught by a handler of step 1 or 2
    schema_result,  \* how step 1 ended: none, created, exists, warning
    volume_result,  \* how step 2 ended
    csv_files,      \* line 72
    i,              \* iterations of the upload loop completed
    uploaded,       \* remote paths reported as uploaded (line 94)
    t,              \* iterations of the table loop completed
    prepared,       \* tables whose configuration was reported as prepared (line 132)
    calls,          \* calls made by this invocation, in order, as <<name, argument>>
    prev,           \* what the previous invocation left: its step-1 result and the volume's objects
    rpc,            \* position of the Statement Runner
    ddl_text,       \* the script handed to the Statement Runner
    statements,     \* the statements that survive splitting and filtering
    n,              \* statements attempted so far
    executed,       \* <<index, statement>> of every attempt, in order
    failed          \* indexes of the statements whose execution failed

rvars == <<rpc, ddl_text, statements, n, executed, failed>>
wvars == <<pc, run, schemas, volumes, objects, tables, local, e, schema_result, volume_result,
           csv_files, i, uploaded, t, prepared, calls, prev>>
vars == <<pc, run, schemas, volumes, objects, tables, local, e, schema_result, volume_result,
          csv_files, i, uploaded, t, prepared, calls, prev,
          rpc, ddl_text, statements, n, executed, failed>>

RunnerIdle ==
    /\ rpc = "idle"
    /\ ddl_text = <<>>
    /\ statements = <<>>
    /\ n = 0
    /\ executed = <<>>
    /\ failed = {}

Init ==
    /\ pc = "start"
    /\ run = 1
    /\ \E ws \in Workspaces :
        /\ schemas = ws.schemas
        /\ volumes = ws.volumes
        /\ objects = ws.objects
    /\ tables = {}
    /\ local \in LocalDirs
    /\ e = NoError
    /\ schema_result = "none"
    /\ volume_result = "none"
    /\ csv_files = <<>>
    /\ i = 0
    /\ uploaded = {}
    /\ t = 0
    /\ prepared = {}
    /\ calls = <<>>
    /\ prev = [schema_result |-> "none", objects |-> <<>>]
    /\ RunnerIdle

\* lines 26-34: WorkspaceClient() and the read of w.config.host are outside every try
Construct ==
    /\ pc = "start"
    /\ calls' = Append(calls, <<"WorkspaceClient", <<>>>>)
    /\ \/ pc' = "step1"
       \/ pc' = "raised"
    /\ UNCHANGED <<run, schemas, volumes, objects, tables, local, e, schema_result, volume_result,
                   csv_files, i, uploaded, t, prepared, prev>>
    /\ UNCHANGED rvars

\* lines 36-49
CreateSchema ==
    /\ pc = "step1"
    /\ calls' = Append(calls, <<"schemas.create", CATALOG \o <<".">> \o SCHEMA>>)
    /\ \/ /\ TheSchema \notin schemas
          /\ schemas' = schemas \cup {TheSchema}
          /\ e' = NoError
          /\ schema_result' = "created"
          /\ pc' = "step2"
       \/ \E msg \in Messages :
          /\ schemas' = schemas
          /\ e' = Caught(msg)
          /\ schema_result' = SchemaHandler(msg)
          /\ pc' = IF SchemaHandler(msg) = "raise" THEN "raised" ELSE "step2"
    /\ UNCHANGED <<run, volumes, objects, tables, local, volume_result, csv_files, i, uploaded,
                   t, prepared, prev>>
    /\ UNCHANGED rvars

\* lines 51-66
CreateVolume ==
    /\ pc = "step2"
    /\ calls' = Append(calls, <<"volumes.create", CATALOG \o <<".">> \o SCHEMA \o <<".">> \o VOLUME>>)
    /\ \/ /\ TheSchema \in schemas
          /\ TheVolume \notin volumes
          /\ volumes' = volumes \cup {TheVolume}
          /\ e' = NoError
          /\ volume_result' = "created"
          /\ pc' = "step3"
       \/ \E msg \in Messages :
          /\ volumes' = volumes
          /\ e' = Caught(msg)
          /\ volume_result' = VolumeHandler(msg)
          /\ pc' = IF VolumeHandler(msg) = "raise" THEN "raised" ELSE "step3"
    /\ UNCHANGED <<run, schemas, objects, tables, local, schema_result, csv_files, i, uploaded,
                   t, prepared, prev>>
    /\ UNCHANGED rvars

\* lines 68-77
ListFiles ==
    /\ pc = "step3"
    /\ calls' = Append(calls, <<"glob", DATA_DIR \o Slash \o <<"s","y","n","t","h","e","t","i","c","-","*",".","c","s","v">>>>)
    /\ \E order \in Orders(Glob(local)) :
        /\ csv_files' = order
        /\ pc' = AfterGlob(order)
    /\ e' = NoError
    /\ UNCHANGED <<run, schemas, volumes, objects, tables, local, schema_result, volume_result,
                   i, uploaded, t, prepared, prev>>
    /\ UNCHANGED rvars

\* lines 79-96: one iteration of the upload loop
UploadFile ==
    /\ pc = "upload"
    /\ i < Len(csv_files)
    /\ LET csv_file == csv_files[i + 1]
           filename == Basename(csv_file)
           remote_path == RemotePath(filename)
           opened == Append(calls, <<"open", csv_file>>)
           after(ok) == IF UploadHandler(ok) = "raise" THEN "raised"
                        ELSE IF i + 1 = Len(csv_files) THEN "step4" ELSE "upload"
       IN  \/ \* open() or read() raises
              /\ calls' = opened
              /\ objects' = objects
              /\ uploaded' = uploaded
              /\ pc' = after(FALSE)
           \/ \* w.files.upload raises
              /\ csv_file \in DOMAIN local
              /\ calls' = Append(opened, <<"files.upload", remote_path>>)
              /\ objects' = objects
              /\ uploaded' = uploaded
              /\ pc' = after(FALSE)
           \/ \* uploaded
              /\ csv_file \in DOMAIN local
              /\ TheVolume \in volumes
              /\ calls' = Append(opened, <<"files.upload", remote_path>>)
              /\ objects' = FilesUpload(objects, remote_path, local[csv_file])
              /\ uploaded' = uploaded \cup {remote_path}
              /\ pc' = after(TRUE)
    /\ i' = i + 1
    /\ UNCHANGED <<run, schemas, volumes, tables, local, e, schema_result, volume_result,
                   csv_files, t, prepared, prev>>
    /\ UNCHANGED rvars

\* lines 116-135: one iteration of the table loop
PrepareTable ==
    /\ pc = "step4"
    /\ t < Len(table_configs)
    /\ LET config == table_configs[t + 1]
           path == DATA_DIR \o Slash \o config.file
           after(ok) == IF TableHandler(ok) = "raise" THEN "raised"
                        ELSE IF t + 1 = Len(table_configs) THEN "summary" ELSE "step4"
       IN  /\ calls' = Append(calls, <<"read_csv", path>>)
           /\ \/ \* pd.read_csv raises
                 /\ prepared' = prepared
                 /\ pc' = after(FALSE)
              \/ /\ path \in DOMAIN local
                 /\ prepared' = prepared \cup {config.name}
                 /\ pc' = after(TRUE)
    /\ t' = t + 1
    /\ UNCHANGED <<run, schemas, volumes, objects, tables, local, e, schema_result, volume_result,
                   csv_files, i, uploaded, prev>>
    /\ UNCHANGED rvars

\* lines 137-150
Summary ==
    /\ pc = "summary"
    /\ calls' = Append(calls, <<"summary", <<>>>>)
    /\ pc' = "done"
    /\ UNCHANGED <<run, schemas, volumes, objects, tables, local, e, schema_result, volume_result,
                   csv_files, i, uploaded, t, prepared, prev>>
    /\ UNCHANGED rvars

\* lines 153-154: the script is started again
Rerun ==
    /\ pc \in {"done", "raised"}
    /\ run < MaxRuns
    /\ run' = run + 1
    /\ pc' = "start"
    /\ e' = NoError
    /\ schema_result' = "none"
    /\ volume_result' = "none"
    /\ csv_files' = <<>>
    /\ i' = 0
    /\ uploaded' = {}
    /\ t' = 0
    /\ prepared' = {}
    /\ calls' = <<>>
    /\ prev' = [schema_result |-> schema_result, objects |-> objects]
    /\ UNCHANGED <<schemas, volumes, objects, tables, local>>
    /\ UNCHANGED rvars

Next ==
    \/ Construct
    \/ CreateSchema
    \/ CreateVolume
    \/ ListFiles
    \/ UploadFile
    \/ PrepareTable
    \/ Summary
    \/ Rerun

Spec == Init /\ [][Next]_vars

(* ---------------- Statement Runner (design document, section 4.3) ----- *)
Alphabet == {";", " ", "-", "a"}
Whitespace == {" "}

Scripts == UNION {[1..len -> Alphabet] : len \in 0..MaxLen}

RECURSIVE SplitOn(_, _)
\* str.split(sep) for a one-character separator
SplitOn(s, sep) ==
    IF \A j \in 1..Len(s) : s[j] # sep
    THEN <<s>>
    ELSE LET j == CHOOSE k \in 1..Len(s) : s[k] = sep /\ \A m \in 1..(k-1) : s[m] # sep
         IN  <<SubSeq(s, 1, j - 1)>> \o SplitOn(SubSeq(s, j + 1, Len(s)), sep)

RECURSIVE Strip(_)
\* str.strip()
Strip(s) ==
    IF s = <<>> THEN s
    ELSE IF s[1] \in Whitespace THEN Strip(Tail(s))
    ELSE IF s[Len(s)] \in Whitespace THEN Strip(SubSeq(s, 1, Len(s) - 1))
    ELSE s

\* step 2: a fragment is kept unless it is empty or starts with the comment marker
Survives(fragment) == Strip(fragment) # <<>> /\ ~StartsWith(Strip(fragment), <<"-","-">>)

RECURSIVE Surviving(_)
Surviving(fragments) ==
    IF fragments = <<>> THEN <<>>
    ELSE IF Survives(Head(fragments)) THEN <<Strip(Head(fragments))>> \o Surviving(Tail(fragments))
    ELSE Surviving(Tail(fragments))

\* variant: a failed statement ends the batch
StatementHandlerAbort(ok) == IF ok THEN "continue" ELSE "raise"

\* step 4: a failed statement is reported and the batch goes on
StatementHandler(ok) == "continue"

WorkflowIdle ==
    /\ pc = "start"
    /\ run = 1
    /\ schemas = {}
    /\ volumes = {}
    /\ objects = <<>>
    /\ tables = {}
    /\ local = <<>>
    /\ e = NoError
    /\ schema_result = "none"
    /\ volume_result = "none"
    /\ csv_files = <<>>
    /\ i = 0
    /\ uploaded = {}
    /\ t = 0
    /\ prepared = {}
    /\ calls = <<>>
    /\ prev = [schema_result |-> "none", objects |-> <<>>]

RunnerInit ==
    /\ WorkflowIdle
    /\ rpc = "split"
    /\ ddl_text \in Scripts
    /\ statements = <<>>
    /\ n = 0
    /\ executed = <<>>
    /\ failed = {}

\* steps 1 and 2
SplitScript ==
    /\ rpc = "split"
    /\ statements' = Surviving(SplitOn(ddl_text, ";"))
    /\ rpc' = IF statements' = <<>> THEN "done" ELSE "exec"
    /\ UNCHANGED <<ddl_text, n, executed, failed>>
    /\ UNCHANGED wvars

\* steps 3 and 4: one statement
ExecuteStatement ==
    /\ rpc = "exec"
    /\ n < Len(statements)
    /\ executed' = Append(executed, <<n + 1, statements[n + 1]>>)
    /\ n' = n + 1
    /\ \E ok \in BOOLEAN :
        /\ failed' = IF ok THEN failed ELSE failed \cup {n + 1}
        /\ rpc' = IF StatementHandler(ok) = "raise" THEN "aborted"
                  ELSE IF n + 1 = Len(statements) THEN "done" ELSE "exec"
    /\ UNCHANGED <<ddl_text, statements>>
    /\ UNCHANGED wvars

RunnerNext ==
    \/ SplitScript
    \/ ExecuteStatement

SpecRunner == RunnerInit /\ [][RunnerNext]_vars

(* ====================== properties ====================== *)
\* arguments of the calls of one name made by this invocation, in order
ArgsOf(name) ==
    LET sel == SelectSeq(calls, LAMBDA c : c[1] = name)
    IN  [j \in 1..Len(sel) |-> sel[j][2]]

Called(name) == \E j \in 1..Len(calls) : calls[j][1] = name

UpperChar(c) == IF \E j \in 1..Len(LC) : LC[j] = c
                THEN UC[CHOOSE j \in 1..Len(LC) : LC[j] = c]
                ELSE c

\* msg holds "already exists" with each letter in either case
AnyCaseAlreadyExists(msg) ==
    LET w == <<"a","l","r","e","a","d","y"," ","e","x","i","s","t","s">>
    IN  \E j \in 0..(Len(msg) - Len(w)) :
            \A k \in 1..Len(w) : msg[j + k] = w[k] \/ msg[j + k] = UpperChar(w[k])

\* the remote path the design prescribes for a local file "data/<filename>"
ExpectedPath(csv_file) ==
    <<"/","V","o","l","u","m","e","s","/","d","e","m","o","s","/","m","o","o","r","c","a","r","e","/","d","a","t","a","_","f","i","l","e","s","/">> \o SubSeq(csv_file, Len(<<"d","a","t","a","/">>) + 1, Len(csv_file))

\* C1: in step 1 and in step 2 alike, a create call that fails with a message
\* holding "already exists" in any letter case ends the step as success
\* ("exists"), a failure with any other message ends it as a warning, and no
\* failure message makes main() raise or repeat the call.
C1_Classification ==
    /\ (pc = "step2" /\ e.caught) =>
            schema_result = IF AnyCaseAlreadyExists(e.str) THEN "exists" ELSE "warning"
    /\ (pc = "step3" /\ e.caught) =>
            volume_result = IF AnyCaseAlreadyExists(e.str) THEN "exists" ELSE "warning"
    /\ pc = "raised" => calls = <<(<<"WorkspaceClient", <<>>>>)>>
    /\ Len(ArgsOf("schemas.create")) <= 1
    /\ Len(ArgsOf("volumes.create")) <= 1

C1_Witness ==
    /\ pc = "step3"
    /\ e.caught
    /\ e.str # Lower(e.str)
    /\ volume_result = "exists"
    /\ schema_result = "warning"

\* C2: whatever the outcome of schema creation, volume creation is attempted
\* next; whatever the outcome of volume creation, the files are enumerated
\* next and every matched file is attempted; the calls come in the order
\* schema create, volume create, enumeration, uploads.
C2_ProvisioningNeverHalts ==
    /\ schema_result # "none" => (pc = "step2" \/ Called("volumes.create"))
    /\ volume_result # "none" => (pc = "step3" \/ Called("glob"))
    /\ (schema_result # "none" /\ pc \in {"step4", "summary", "done"}) =>
            \A p \in Glob(local) : \E j \in 1..Len(calls) : calls[j] = <<"open", p>>
    /\ \A j \in 1..Len(calls) :
            /\ calls[j][1] = "schemas.create" => j = 2
            /\ calls[j][1] = "volumes.create" => j = 3
            /\ calls[j][1] = "glob" => j = 4
            /\ calls[j][1] \in {"open", "files.upload"} => j > 4

C2_Witness ==
    /\ pc = "done"
    /\ schema_result = "warning"
    /\ volume_result = "warning"
    /\ Len(ArgsOf("open")) = 2
    /\ Called("summary")

\* C3: the upload loop attempts every matched file exactly once, in the order
\* of the enumeration, whichever reads and uploads fail, no file is uploaded
\* twice, and the stage after the loop is reached.
C3_EveryFileAttemptedOnce ==
    /\ pc = "upload" => (i < Len(csv_files) /\ ArgsOf("open") = SubSeq(csv_files, 1, i))
    /\ (pc \in {"step4", "summary"} \/ (pc = "done" /\ csv_files # <<>>)) =>
            /\ i = Len(csv_files)
            /\ ArgsOf("open") = csv_files
    /\ \A a, b \in 1..Len(csv_files) : csv_files[a] = csv_files[b] => a = b
    /\ \A a, b \in 1..Len(ArgsOf("files.upload")) :
            ArgsOf("files.upload")[a] = ArgsOf("files.upload")[b] => a = b
    /\ (pc = "raised" => ~Called("glob"))

C3_Witness ==
    /\ pc = "step4"
    /\ Len(csv_files) = 2
    /\ ArgsOf("files.upload") = <<ExpectedPath(csv_files[2])>>
    /\ ExpectedPath(csv_files[1]) \notin DOMAIN objects
    /\ uploaded = {ExpectedPath(csv_files[2])}

\* C4: in a later invocation with the same local files, every matched file
\* whose object the earlier invocation left with the file's content still has
\* exactly that content and still is the only object of that filename; when
\* that is so for all matched files, the volume's objects are as the earlier
\* invocation left them.
C4_ReuploadIdempotent ==
    run >= 2 =>
        /\ \A f \in Glob(local) :
              (ExpectedPath(f) \in DOMAIN prev.objects /\ prev.objects[ExpectedPath(f)] = local[f]) =>
                  /\ ExpectedPath(f) \in DOMAIN objects
                  /\ objects[ExpectedPath(f)] = local[f]
                  /\ {p \in DOMAIN objects : Basename(p) = Basename(f)}
                        = {p \in DOMAIN prev.objects : Basename(p) = Basename(f)}
        /\ (\A f \in Glob(local) :
              ExpectedPath(f) \in DOMAIN prev.objects /\ prev.objects[ExpectedPath(f)] = local[f])
           => objects = prev.objects

C4_Witness ==
    /\ run = 2
    /\ pc = "step4"
    /\ Len(csv_files) >= 2
    /\ \A f \in Glob(local) :
          /\ ExpectedPath(f) \in DOMAIN prev.objects
          /\ prev.objects[ExpectedPath(f)] = local[f]
          /\ ExpectedPath(f) \in uploaded
    /\ \E f \in Glob(local) : local[f] # <<>>

\* C5: when no local file matches the pattern, main() returns right after the
\* enumeration: no file is opened or uploaded, the table stage and the final
\* summary are not executed, and no exception is raised.
C5_NoFilesShortCircuit ==
    (Called("glob") /\ Glob(local) = {}) =>
        /\ pc = "done"
        /\ csv_files = <<>>
        /\ calls[Len(calls)][1] = "glob"
        /\ ~Called("open") /\ ~Called("files.upload")
        /\ ~Called("read_csv") /\ ~Called("summary")
        /\ uploaded = {} /\ prepared = {} /\ t = 0

C5_Witness ==
    /\ pc = "done"
    /\ Called("glob")
    /\ csv_files = <<>>
    /\ DOMAIN local # {}

\* C6: every invocation completes normally: no exception escapes main(),
\* whatever the outcomes of the external calls, client construction included.
C6_NoExceptionEscapes == pc # "raised"

\* C7 as stated: when the schema creation step is performed a second time, it
\* ends as success (created or already exists), never as a warning and never
\* with an escaped exception.
C7_SecondAttemptSucceeds ==
    (run >= 2 /\ prev.schema_result # "none" /\ schema_result # "none") =>
        schema_result \in {"created", "exists"}

\* C7 amended: when the schema creation step is performed a second time, no
\* exception escapes it and the workflow goes on to volume creation; the step
\* ends as created, as already exists or as a warning, and as a warning
\* exactly when the create call failed with a message that does not hold
\* "already exists".
C7_SecondAttemptNeverRaises ==
    (run >= 2 /\ prev.schema_result # "none") =>
        /\ pc = "raised" => ~Called("schemas.create")
        /\ Called("schemas.create") => schema_result \in {"created", "exists", "warning"}
        /\ pc = "step2" =>
              (schema_result = "warning" <=> (e.caught /\ ~AnyCaseAlreadyExists(e.str)))

C7_Witness ==
    /\ run = 2
    /\ prev.schema_result = "warning"
    /\ pc = "step2"
    /\ schema_result = "warning"
    /\ TheSchema \notin schemas

\* the fragments of ddl_text, by the positions of its terminators
Terminators == {j \in 1..Len(ddl_text) : ddl_text[j] = ";"}
FragmentCount == Cardinality(Terminators) + 1
Boundary(m) ==
    IF m = 0 THEN 0
    ELSE IF m = FragmentCount THEN Len(ddl_text) + 1
    ELSE CHOOSE j \in Terminators : Cardinality({q \in Terminators : q < j}) = m - 1
Fragment(m) == SubSeq(ddl_text, Boundary(m - 1) + 1, Boundary(m) - 1)
Trimmed(s) ==
    IF \A j \in 1..Len(s) : s[j] = " " THEN <<>>
    ELSE SubSeq(s, CHOOSE j \in 1..Len(s) : s[j] # " " /\ \A q \in 1..(j-1) : s[q] = " ",
                   CHOOSE j \in 1..Len(s) : s[j] # " " /\ \A q \in (j+1)..Len(s) : s[q] = " ")
Discarded(m) ==
    \/ Trimmed(Fragment(m)) = <<>>
    \/ (Len(Trimmed(Fragment(m))) >= 2 /\ Trimmed(Fragment(m))[1] = "-" /\ Trimmed(Fragment(m))[2] = "-")
KeptFragments == {m \in 1..FragmentCount : ~Discarded(m)}
DiscardedCount == Cardinality({m \in 1..FragmentCount : Discarded(m)})
\* the j-th kept fragment, in script order
KeptAt(j) == CHOOSE m \in KeptFragments : Cardinality({q \in KeptFragments : q < m}) = j - 1

\* C8: of the N fragments of a script, k of them empty or comments after
\* trimming, the runner attempts exactly the other N - k, each once, numbered
\* from 1 in script order, whichever of them fail; a failure never ends the
\* batch.
C8_AttemptsEverySurvivingStatement ==
    /\ rpc # "aborted"
    /\ failed \subseteq 1..Len(executed)
    /\ rpc = "exec" => (n < FragmentCount - DiscardedCount /\ Len(executed) = n)
    /\ rpc \in {"exec", "done"} =>
          \A j \in 1..Len(executed) : executed[j] = <<j, Trimmed(Fragment(KeptAt(j)))>>
    /\ rpc = "done" => Len(executed) = FragmentCount - DiscardedCount

C8_Witness ==
    /\ rpc = "done"
    /\ Len(executed) = 2
    /\ failed = {1}
    /\ DiscardedCount >= 1

\* C9: an iteration of the upload loop for the local file data/<filename>
\* touches only the object /Volumes/<catalog>/<schema>/<volume>/<filename>:
\* distinct matched files have distinct remote paths, a successful upload
\* makes that object the bytes of the local file, every other object and the
\* schemas, volumes and tables stay as they were, and no local file changes.
C9_UploadWritesOnlyItsObject ==
    [][pc = "upload" =>
        LET f == csv_files[i + 1]
            rp == ExpectedPath(f)
        IN  /\ \A a, b \in 1..Len(csv_files) :
                  a # b => ExpectedPath(csv_files[a]) # ExpectedPath(csv_files[b])
            /\ rp = <<"/","V","o","l","u","m","e","s","/">> \o CATALOG \o Slash \o SCHEMA \o Slash \o VOLUME \o Slash
                        \o SubSeq(f, Len(DATA_DIR) + 2, Len(f))
            /\ local' = local
            /\ schemas' = schemas /\ volumes' = volumes /\ tables' = tables
            /\ DOMAIN objects' \subseteq (DOMAIN objects) \cup {rp}
            /\ \A p \in (DOMAIN objects) \ {rp} : p \in DOMAIN objects' /\ objects'[p] = objects[p]
            /\ uploaded' # uploaded =>
                  (uploaded' = uploaded \cup {rp} /\ rp \in DOMAIN objects' /\ objects'[rp] = local[f])
            /\ uploaded' = uploaded => objects' = objects
            /\ Len(calls') > Len(calls) + 1 => calls'[Len(calls')] = <<"files.upload", rp>>
    ]_vars

C9_Witness ==
    /\ pc = "upload"
    /\ i = 1
    /\ uploaded = {ExpectedPath(csv_files[1])}
    /\ objects[ExpectedPath(csv_files[1])] = local[csv_files[1]]
    /\ <<"/","V","o","l","u","m","e","s","/","d","e","m","o","s","/","m","o","o","r","c","a","r","e","/","d","a","t","a","_","f","i","l","e","s","/","r","e","a","d","m","e",".","t","x","t">> \in DOMAIN objects
    /\ objects[<<"/","V","o","l","u","m","e","s","/","d","e","m","o","s","/","m","o","o","r","c","a","r","e","/","d","a","t","a","_","f","i","l","e","s","/","r","e","a","d","m","e",".","t","x","t">>] = <<8>>
    /\ Cardinality(DOMAIN objects) = 3

ExpectedTableFiles == <<
    <<"d","a","t","a","/","s","y","n","t","h","e","t","i","c","-","p","e","a","t","l","a","n","d","-","s","i","t","e","s",".","c","s","v">>,
    <<"d","a","t","a","/","s","y","n","t","h","e","t","i","c","-","m","o","n","i","t","o","r","i","n","g","-","d","a","t","a",".","c","s","v">>,
    <<"d","a","t","a","/","s","y","n","t","h","e","t","i","c","-","r","e","s","t","o","r","a","t","i","o","n","-","p","r","o","j","e","c","t","s",".","c","s","v">> >>

====
